---------------------------- MODULE Spec2Model ----------------------------
(***************************************************************************)
(* The fuzz target testing-tools/ttf-fuzz/src/fuzz-name.rs of ttf-parser.  *)
(*                                                                         *)
(*   fn main() {                                                           *)
(*       afl::fuzz!(|data: &[u8]| {                                        *)
(*           if let Ok(font) = ttf_parser::Font::from_data(data, 0) {      *)
(*               let _ = font.family_name();                               *)
(*               let _ = font.post_script_name();                          *)
(*               let _ = font.names().count();                             *)
(*           }                                                             *)
(*       });                                                               *)
(*   }                                                                     *)
(*                                                                         *)
(* Each harness instance is a process running the callback once per input  *)
(* the engine dispatches.  One action is one line of the callback: the     *)
(* library call of that line together with everything the harness does     *)
(* with its result.  The font library is not part of the harness: it is a  *)
(* deterministic oracle `lib`, fixed when the system starts, that tells    *)
(* for every buffer how each of the four calls ends.                       *)
(***************************************************************************)
EXTENDS Naturals, Sequences, FiniteSets

\* Longest input buffer the engine hands out.
MaxLen == 2

\* Trials one instance runs (the counter `trials` is capped by it).
MaxTrials == 2

\* The harness instances the engine runs side by side.
Procs == {"h1", "h2"}

\* Byte values of the buffers.  The callback never reads a byte itself; the
\* buffers differ by their length and the oracle treats each one separately.
Byte == {0}

RECURSIVE SeqsOfLen(_)
SeqsOfLen(n) ==
    IF n = 0 THEN {<<>>}
    ELSE {Append(s, b) : s \in SeqsOfLen(n - 1), b \in Byte}

\* data: &[u8], every buffer of length 0..MaxLen.
Inputs == UNION {SeqsOfLen(n) : n \in 0..MaxLen}

\* Position of a process in main().
Idle == "Idle"
Aborted == "Aborted"
Probing == {"from_data", "family_name", "post_script_name", "names_count"}

\* How a library call can end: construction reports Ok or Err, an accessor
\* returns; any call may end abnormally (panic, trap) or never return.
ParseOutcomes == {"Ok", "Err", "abort", "hang"}
AccessOutcomes == {"ret", "abort", "hang"}

\* What the library does with one buffer: the end of each of the four calls.
\* A call that is never reached (an earlier one did not succeed) is "ret".
Behaviours ==
    {b \in [parse : ParseOutcomes, family_name : AccessOutcomes,
            post_script_name : AccessOutcomes, names_count : AccessOutcomes] :
        /\ b.parse # "Ok" => b.family_name = "ret"
        /\ (b.parse # "Ok" \/ b.family_name # "ret") => b.post_script_name = "ret"
        /\ (b.parse # "Ok" \/ b.family_name # "ret" \/ b.post_script_name # "ret")
               => b.names_count = "ret"}

\* The deterministic libraries: the empty buffer is never a font.
Libraries == {l \in [Inputs -> Behaviours] : l[<<>>].parse = "Err"}

VARIABLES
    lib,      \* the font library: buffer -> behaviour, never changes
    pc,       \* pc[p]: Idle, a line of the callback, or Aborted
    buf,      \* buf[p]: the input buffer of the trial (data)
    font,     \* font[p]: the live Font values of p, the binding `font` last
    sink,     \* sink[p]: whatever the harness stored, logged or printed
    calls,    \* calls[p]: the library calls of the current trial, in order
    trials,   \* trials[p]: trials dispatched to p so far
    entry     \* entry[p]: the harness state when the trial was dispatched

vars == <<lib, pc, buf, font, sink, calls, trials, entry>>

\* The state the harness itself owns in process p.
HarnessState(p) == [font |-> font[p], sink |-> sink[p]]

\* The state of process p.
ProcState(p) ==
    <<pc[p], buf[p], font[p], sink[p], calls[p], trials[p], entry[p]>>

----------------------------------------------------------------------------
\* The font library, seen through its four calls.

\* ttf_parser::Font::from_data(data, index).  The oracle describes the first
\* entry of a buffer; any other index names no entry and is reported as Err.
Font_from_data(d, i) == IF i = 0 THEN lib[d].parse ELSE "Err"

\* font.family_name()
family_name(h) == lib[h.data].family_name

\* font.post_script_name()
post_script_name(h) == lib[h.data].post_script_name

\* font.names().count()
names_count(h) == lib[h.data].names_count

\* The Font value a successful construction returns.
Handle(d, i) == [data |-> d, index |-> i]

\* One entry of the call log.
Call(f, d, i, r) == [fn |-> f, data |-> d, index |-> i, res |-> r]

\* The binding `font` of line 3.
Last(s) == s[Len(s)]
DropLast(s) == SubSeq(s, 1, Len(s) - 1)

----------------------------------------------------------------------------
Init ==
    /\ lib \in Libraries
    /\ pc = [p \in Procs |-> Idle]
    /\ buf = [p \in Procs |-> <<>>]
    /\ font = [p \in Procs |-> <<>>]
    /\ sink = [p \in Procs |-> <<>>]
    /\ calls = [p \in Procs |-> <<>>]
    /\ trials = [p \in Procs |-> 0]
    /\ entry = [p \in Procs |-> [font |-> <<>>, sink |-> <<>>]]

\* Dispatch without waiting for the callback to return: a buffer is handed
\* over while the previous trial is still probing.
DispatchReentrant(p) ==
    /\ pc[p] \in Probing \cup {Idle}
    /\ trials[p] < MaxTrials
    /\ \E d \in Inputs :
        /\ buf' = [buf EXCEPT ![p] = d]
        /\ pc' = [pc EXCEPT ![p] = "from_data"]
        /\ calls' = [calls EXCEPT ![p] = <<>>]
        /\ trials' = [trials EXCEPT ![p] = @ + 1]
        /\ entry' = [entry EXCEPT ![p] = HarnessState(p)]
    /\ UNCHANGED <<lib, font, sink>>

\* afl::fuzz!(|data: &[u8]| ...): the engine hands the next buffer to the
\* callback of an idle instance.
Dispatch(p) ==
    /\ pc[p] = Idle
    /\ trials[p] < MaxTrials
    /\ \E d \in Inputs :
        /\ buf' = [buf EXCEPT ![p] = d]
        /\ pc' = [pc EXCEPT ![p] = "from_data"]
        /\ calls' = [calls EXCEPT ![p] = <<>>]
        /\ trials' = [trials EXCEPT ![p] = @ + 1]
        /\ entry' = [entry EXCEPT ![p] = HarnessState(p)]
    /\ UNCHANGED <<lib, font, sink>>

\* The index taken from the buffer instead of the literal 0.
IndexArgFromLen(d) == Len(d)

\* The collection index line 3 passes for buffer d.
IndexArg(d) == 0

\* Font::from_data(data, 0).unwrap(): Err panics instead of ending the trial.
FromDataUnwrap(p) ==
    /\ pc[p] = "from_data"
    /\ LET i == IndexArg(buf[p])
           r == Font_from_data(buf[p], i)
       IN  /\ r # "hang"
           /\ calls' = [calls EXCEPT ![p] = Append(@, Call("from_data", buf[p], i, r))]
           /\ font' = [font EXCEPT ![p] =
                          IF r = "Ok" THEN Append(@, Handle(buf[p], i)) ELSE @]
           /\ pc' = [pc EXCEPT ![p] = IF r = "Ok" THEN "family_name" ELSE Aborted]
    /\ UNCHANGED <<lib, buf, sink, trials, entry>>

\* A static flag: the first rejected buffer is remembered, and every later
\* trial of the process returns at once.
FromDataSticky(p) ==
    /\ pc[p] = "from_data"
    /\ IF sink[p] # <<>>
       THEN /\ pc' = [pc EXCEPT ![p] = Idle]
            /\ UNCHANGED <<calls, font, sink>>
       ELSE LET i == IndexArg(buf[p])
                r == Font_from_data(buf[p], i)
            IN  /\ r # "hang"
                /\ calls' = [calls EXCEPT ![p] = Append(@, Call("from_data", buf[p], i, r))]
                /\ font' = [font EXCEPT ![p] =
                               IF r = "Ok" THEN Append(@, Handle(buf[p], i)) ELSE @]
                /\ sink' = [sink EXCEPT ![p] = IF r = "Err" THEN Append(@, "rejected") ELSE @]
                /\ pc' = [pc EXCEPT ![p] =
                               CASE r = "Ok" -> "family_name"
                                 [] r = "Err" -> Idle
                                 [] OTHER -> Aborted]
    /\ UNCHANGED <<lib, buf, trials, entry>>

\* if let Ok(font) = ttf_parser::Font::from_data(data, 0) { ... }
\* Err: the if-let has no else, the callback returns.
FromData(p) ==
    /\ pc[p] = "from_data"
    /\ LET i == IndexArg(buf[p])
           r == Font_from_data(buf[p], i)
       IN  /\ r # "hang"
           /\ calls' = [calls EXCEPT ![p] = Append(@, Call("from_data", buf[p], i, r))]
           /\ font' = [font EXCEPT ![p] =
                          IF r = "Ok" THEN Append(@, Handle(buf[p], i)) ELSE @]
           /\ pc' = [pc EXCEPT ![p] =
                          CASE r = "Ok" -> "family_name"
                            [] r = "Err" -> Idle
                            [] OTHER -> Aborted]
    /\ UNCHANGED <<lib, buf, sink, trials, entry>>

\* The parsed font kept in one static slot that all instances share: the
\* accessor is called on the font another instance stored there last.
FamilyNameShared(p) ==
    /\ pc[p] = "family_name"
    /\ LET others == {q \in Procs \ {p} : font[q] # <<>>}
           h == IF others = {} THEN Last(font[p])
                ELSE Last(font[CHOOSE q \in others : TRUE])
           r == family_name(h)
       IN  /\ r # "hang"
           /\ calls' = [calls EXCEPT ![p] = Append(@, Call("family_name", h.data, h.index, r))]
           /\ pc' = [pc EXCEPT ![p] = IF r = "ret" THEN "post_script_name" ELSE Aborted]
    /\ UNCHANGED <<lib, buf, font, sink, trials, entry>>

\* The first accessor left out.
FamilyNameSkipped(p) ==
    /\ pc[p] = "family_name"
    /\ pc' = [pc EXCEPT ![p] = "post_script_name"]
    /\ UNCHANGED <<lib, buf, font, sink, calls, trials, entry>>

\* The accessor wrapped in catch_unwind: a panic ends the trial normally.
FamilyNameCaught(p) ==
    /\ pc[p] = "family_name"
    /\ LET h == Last(font[p])
           r == family_name(h)
       IN  /\ r # "hang"
           /\ calls' = [calls EXCEPT ![p] = Append(@, Call("family_name", h.data, h.index, r))]
           /\ font' = [font EXCEPT ![p] = IF r = "ret" THEN @ ELSE DropLast(@)]
           /\ pc' = [pc EXCEPT ![p] = IF r = "ret" THEN "post_script_name" ELSE Idle]
    /\ UNCHANGED <<lib, buf, sink, trials, entry>>

\* println!("{:?}", font.family_name()): the result is written out.
FamilyNameLogged(p) ==
    /\ pc[p] = "family_name"
    /\ LET h == Last(font[p])
           r == family_name(h)
       IN  /\ r # "hang"
           /\ calls' = [calls EXCEPT ![p] = Append(@, Call("family_name", h.data, h.index, r))]
           /\ sink' = [sink EXCEPT ![p] = IF r = "ret" THEN Append(@, "family_name") ELSE @]
           /\ pc' = [pc EXCEPT ![p] = IF r = "ret" THEN "post_script_name" ELSE Aborted]
    /\ UNCHANGED <<lib, buf, font, trials, entry>>

\* let _ = font.family_name();
FamilyName(p) ==
    /\ pc[p] = "family_name"
    /\ LET h == Last(font[p])
           r == family_name(h)
       IN  /\ r # "hang"
           /\ calls' = [calls EXCEPT ![p] = Append(@, Call("family_name", h.data, h.index, r))]
           /\ pc' = [pc EXCEPT ![p] = IF r = "ret" THEN "post_script_name" ELSE Aborted]
    /\ UNCHANGED <<lib, buf, font, sink, trials, entry>>

\* let _ = font.post_script_name();
PostScriptName(p) ==
    /\ pc[p] = "post_script_name"
    /\ LET h == Last(font[p])
           r == post_script_name(h)
       IN  /\ r # "hang"
           /\ calls' = [calls EXCEPT ![p] = Append(@, Call("post_script_name", h.data, h.index, r))]
           /\ pc' = [pc EXCEPT ![p] = IF r = "ret" THEN "names_count" ELSE Aborted]
    /\ UNCHANGED <<lib, buf, font, sink, trials, entry>>

\* std::mem::forget(font): the callback returns with the font still live.
NamesCountForget(p) ==
    /\ pc[p] = "names_count"
    /\ LET h == Last(font[p])
           r == names_count(h)
       IN  /\ r # "hang"
           /\ calls' = [calls EXCEPT ![p] = Append(@, Call("names_count", h.data, h.index, r))]
           /\ pc' = [pc EXCEPT ![p] = IF r = "ret" THEN Idle ELSE Aborted]
    /\ UNCHANGED <<lib, buf, font, sink, trials, entry>>

\* The count retried in a loop: the callback calls it again and again and
\* never returns (the log stops growing at six entries).
NamesCountRetry(p) ==
    /\ pc[p] = "names_count"
    /\ LET h == Last(font[p])
           r == names_count(h)
       IN  /\ r # "hang"
           /\ calls' = [calls EXCEPT ![p] =
                            IF Len(@) < 6
                            THEN Append(@, Call("names_count", h.data, h.index, r))
                            ELSE @]
           /\ pc' = [pc EXCEPT ![p] = IF r = "ret" THEN "names_count" ELSE Aborted]
    /\ UNCHANGED <<lib, buf, font, sink, trials, entry>>

\* let _ = font.names().count(); then the closing braces: `font` goes out of
\* scope and the callback returns.
NamesCount(p) ==
    /\ pc[p] = "names_count"
    /\ LET h == Last(font[p])
           r == names_count(h)
       IN  /\ r # "hang"
           /\ calls' = [calls EXCEPT ![p] = Append(@, Call("names_count", h.data, h.index, r))]
           /\ font' = [font EXCEPT ![p] = IF r = "ret" THEN DropLast(@) ELSE @]
           /\ pc' = [pc EXCEPT ![p] = IF r = "ret" THEN Idle ELSE Aborted]
    /\ UNCHANGED <<lib, buf, sink, trials, entry>>

\* One step of the callback in process p.
Step(p) == FromData(p) \/ FamilyName(p) \/ PostScriptName(p) \/ NamesCount(p)

Next ==
    \E p \in Procs :
        \/ Dispatch(p)
        \/ FromData(p)
        \/ FamilyName(p)
        \/ PostScriptName(p)
        \/ NamesCount(p)

Spec == Init /\ [][Next]_vars

\* One harness process on its own: single-threaded, one trial at a time.
\* The callback is synchronous, so once dispatched it keeps running; the
\* engine is free to stop dispatching.
Solo == "h1"

SoloNext ==
    \/ Dispatch(Solo)
    \/ FromData(Solo)
    \/ FamilyName(Solo)
    \/ PostScriptName(Solo)
    \/ NamesCount(Solo)

FairSpec == Init /\ [][SoloNext]_vars /\ WF_vars(Step(Solo))


----------------------------------------------------------------------------
\* Vocabulary of the properties.

IsPrefix(s, t) == Len(s) <= Len(t) /\ \A k \in 1..Len(s) : s[k] = t[k]

\* The names of the calls of a log, in order.
Fns(s) == [k \in 1..Len(s) |-> s[k].fn]

FullSequence == <<"from_data", "family_name", "post_script_name", "names_count">>
Accessors == {"family_name", "post_script_name", "names_count"}

\* Idle, Probing or Aborted.
State(l) == IF l \in Probing THEN "Probing" ELSE l

\* The trial of p has ended (normally or abnormally).
Ended(p) == trials[p] > 0 /\ pc[p] \in {Idle, Aborted}

\* The library returns from every call it is asked for buffer d.
Returns(d) ==
    /\ lib[d].parse # "hang"
    /\ lib[d].family_name # "hang"
    /\ lib[d].post_script_name # "hang"
    /\ lib[d].names_count # "hang"

\* The harness state of a fresh process.
FreshState == [font |-> <<>>, sink |-> <<>>]

----------------------------------------------------------------------------
\* C1: whenever Font::from_data reports failure (Err), the empty buffer
\* included, the trial is over and the process is Idle again: the failed
\* construction is the only library call of the trial, no accessor was
\* invoked, no font is live and nothing was surfaced.
C1_RejectedTrialEndsQuietly ==
    \A p \in Procs : \A k \in 1..Len(calls[p]) :
        (calls[p][k].fn = "from_data" /\ calls[p][k].res = "Err") =>
            /\ pc[p] = Idle
            /\ Len(calls[p]) = 1
            /\ \A j \in 1..Len(calls[p]) : calls[p][j].fn \notin Accessors
            /\ font[p] = <<>>
            /\ sink[p] = <<>>

\* One instance rejected the empty buffer, the other a non-empty one.
C1_Witness ==
    /\ buf["h1"] = <<>> /\ pc["h1"] = Idle
    /\ calls["h1"] = <<Call("from_data", <<>>, 0, "Err")>>
    /\ buf["h2"] # <<>> /\ pc["h2"] = Idle
    /\ Len(calls["h2"]) = 1 /\ calls["h2"][1].res = "Err"

\* C2: the calls of a trial are a prefix of from_data, family_name,
\* post_script_name, names_count (each at most once, in this order, no
\* accessor before the construction); an accessor is only ever called after
\* the construction of the same trial returned Ok, and on the font that
\* construction built; a trial whose construction succeeded and that returned
\* normally made exactly the four calls.
C2_AccessorsOnceInOrder ==
    \A p \in Procs :
        /\ IsPrefix(Fns(calls[p]), FullSequence)
        /\ \A k \in 2..Len(calls[p]) :
              /\ calls[p][1].res = "Ok"
              /\ calls[p][k].data = calls[p][1].data
              /\ calls[p][k].index = calls[p][1].index
              /\ calls[p][k - 1].res \in {"Ok", "ret"}
        /\ (pc[p] \in Accessors) => (Len(calls[p]) >= 1 /\ calls[p][1].res = "Ok")
        /\ (pc[p] = "family_name") => Len(calls[p]) = 1
        /\ (pc[p] = "post_script_name") => Len(calls[p]) = 2
        /\ (pc[p] = "names_count") => Len(calls[p]) = 3
        /\ (pc[p] = Idle /\ calls[p] # <<>> /\ calls[p][1].res = "Ok") =>
              (Fns(calls[p]) = FullSequence /\ calls[p][4].res = "ret")

\* A trial that ran the construction and all three accessors and returned.
C2_Witness ==
    \E p \in Procs :
        /\ pc[p] = Idle
        /\ Fns(calls[p]) = FullSequence
        /\ calls[p][1].res = "Ok"

\* C3: a library call that ends abnormally leaves the process Aborted, and
\* Aborted is terminal: no later step of the trial runs (the call log, the
\* buffer and the trial counter stay as they are) and the process never
\* returns to Idle.
C3_AbortIsTerminal ==
    [][\A p \in Procs :
          /\ (calls'[p] # <<>> /\ Last(calls'[p]).res = "abort") => pc'[p] = Aborted
          /\ pc[p] = Aborted => ProcState(p)' = ProcState(p)]_vars

\* One instance aborted in the construction, the other in an accessor.
C3_Witness ==
    /\ pc["h1"] = Aborted /\ Len(calls["h1"]) = 1
    /\ pc["h2"] = Aborted /\ Len(calls["h2"]) > 1
    /\ Last(calls["h2"]).res = "abort"

\* C4: once a trial is past line 3 its first call is the construction, on the
\* trial's own buffer and with index 0, whatever the buffer's length; there
\* is no second construction, and no call or font of any other index.
C4_ConstructionOnceAtIndexZero ==
    \A p \in Procs :
        /\ (pc[p] = "from_data") => calls[p] = <<>>
        /\ (trials[p] > 0 /\ pc[p] # "from_data") =>
              /\ calls[p] # <<>>
              /\ calls[p][1].fn = "from_data"
              /\ calls[p][1].data = buf[p]
              /\ calls[p][1].index = 0
        /\ \A k \in 2..Len(calls[p]) : calls[p][k].fn # "from_data"
        /\ \A k \in 1..Len(calls[p]) : calls[p][k].index = 0
        /\ \A k \in 1..Len(font[p]) : font[p][k].index = 0

\* The construction has run on the empty buffer and on a longest one.
C4_Witness ==
    /\ buf["h1"] = <<>> /\ Len(calls["h1"]) >= 1
    /\ Len(buf["h2"]) = MaxLen /\ Len(calls["h2"]) >= 1
    /\ calls["h2"][1].res = "Ok"

\* C5: a process is Idle, Probing or Aborted; it leaves Idle only by a
\* dispatch (which starts exactly one trial) and leaves Probing only by the
\* normal return of the callback (to Idle) or by abnormal termination; a
\* trial is dispatched only to an idle process, so trials never overlap.
C5_IdleProbingCycle ==
    [][\A p \in Procs :
          LET s == State(pc[p])
              t == State(pc'[p])
          IN  /\ t \in {"Idle", "Probing", "Aborted"}
              /\ s # t => <<s, t>> \in {<<"Idle", "Probing">>, <<"Probing", "Idle">>,
                                        <<"Probing", "Aborted">>}
              /\ (s = "Idle" /\ t = "Probing") => trials'[p] = trials[p] + 1
              /\ trials'[p] # trials[p] => (s = "Idle" /\ t = "Probing")
              /\ (s = "Probing" /\ t = "Idle") => Last(calls'[p]).res \in {"Err", "ret"}
              /\ (s = "Probing" /\ t = "Probing") => buf'[p] = buf[p]]_vars

\* A process that returned from one trial and is probing the next.
C5_Witness ==
    \E p \in Procs : trials[p] = 2 /\ pc[p] \in Accessors

\* C6: the library being deterministic, two trials of the same buffer agree,
\* however many trials either process ran before: while running, the calls of
\* one are a prefix of the calls of the other, and once both have ended they
\* ended the same way after the same calls.  Every trial starts from the
\* harness state of a fresh process.
C6_TrialsDeterministic ==
    \A p \in Procs :
        /\ trials[p] > 0 => entry[p] = FreshState
        /\ \A q \in Procs :
              (trials[p] > 0 /\ trials[q] > 0 /\ buf[p] = buf[q]) =>
                  /\ IsPrefix(calls[p], calls[q]) \/ IsPrefix(calls[q], calls[p])
                  /\ (Ended(p) /\ Ended(q)) => (pc[p] = pc[q] /\ calls[p] = calls[q])

\* The same accepted buffer run to the end in a fresh process and in one
\* that had run a trial before.
C6_Witness ==
    \E p, q \in Procs :
        /\ trials[p] = 1 /\ trials[q] > 1
        /\ buf[p] = buf[q]
        /\ Ended(p) /\ Ended(q)
        /\ Len(calls[q]) = 4

\* C7: a process holds at most one live font, none while it is Idle or
\* before the construction, and inside the if-let exactly the one built from
\* the trial's buffer.
C7_FontScopedToCallback ==
    \A p \in Procs :
        /\ Len(font[p]) <= 1
        /\ pc[p] \in {Idle, "from_data"} => font[p] = <<>>
        /\ pc[p] \in Accessors => font[p] = <<Handle(buf[p], 0)>>

\* Both normal exits, the second after more than one trial.
C7_Witness ==
    /\ pc["h1"] = Idle /\ Len(calls["h1"]) = 1 /\ trials["h1"] >= 1
    /\ pc["h2"] = Idle /\ Len(calls["h2"]) = 4 /\ trials["h2"] >= 2

\* The trial of buffer d in an instance that runs alone, worked out from the
\* library in one go: the calls that return, in order, each with its result.
\* The callback stops at the first call that does not succeed.
AloneLog(d) ==
    LET b == lib[d]
        c1 == Call("from_data", d, 0, b.parse)
        c2 == Call("family_name", d, 0, b.family_name)
        c3 == Call("post_script_name", d, 0, b.post_script_name)
        c4 == Call("names_count", d, 0, b.names_count)
    IN  IF b.parse = "hang" THEN <<>>
        ELSE IF b.parse # "Ok" \/ b.family_name = "hang" THEN <<c1>>
        ELSE IF b.family_name # "ret" \/ b.post_script_name = "hang" THEN <<c1, c2>>
        ELSE IF b.post_script_name # "ret" \/ b.names_count = "hang" THEN <<c1, c2, c3>>
        ELSE <<c1, c2, c3, c4>>

\* Where that trial ends: Idle (rejected, or all accessors done), Aborted,
\* or the line whose call never returns.
AloneEnd(d) ==
    LET b == lib[d]
    IN  IF b.parse = "hang" THEN "from_data"
        ELSE IF b.parse = "Err" THEN Idle
        ELSE IF b.parse = "abort" THEN Aborted
        ELSE IF b.family_name = "hang" THEN "family_name"
        ELSE IF b.family_name = "abort" THEN Aborted
        ELSE IF b.post_script_name = "hang" THEN "post_script_name"
        ELSE IF b.post_script_name = "abort" THEN Aborted
        ELSE IF b.names_count = "hang" THEN "names_count"
        ELSE IF b.names_count = "abort" THEN Aborted
        ELSE Idle

\* The line a trial is at after its first n calls returned normally.
LineAfter(n) ==
    CASE n = 0 -> "from_data"
      [] n = 1 -> "family_name"
      [] n = 2 -> "post_script_name"
      [] OTHER -> "names_count"

\* The trial of instance p, as far as it got, is its run-alone trial: the
\* same calls with the same results so far, at the line the run-alone trial
\* is at after that many calls, and once all the calls are made, ended (or
\* stuck) where the run-alone trial ends.  Every font it holds is built from
\* its own buffer.
AgreesWithAlone(p) ==
    trials[p] > 0 =>
        /\ IsPrefix(calls[p], AloneLog(buf[p]))
        /\ \A k \in 1..Len(font[p]) : font[p][k] = Handle(buf[p], 0)
        /\ IF calls[p] = AloneLog(buf[p])
           THEN pc[p] = AloneEnd(buf[p])
           ELSE pc[p] = LineAfter(Len(calls[p]))

\* C8: with several instances running in parallel, in every state of every
\* interleaving each instance's trial equals the trial it has when run alone
\* on its buffer (same library calls, same results, same outcome); each
\* instance calls the library on its own buffer and its own font only, and
\* a step of one instance changes neither another instance nor the library.
C8_InterleavedEqualsAlone ==
    /\ [](\A p \in Procs : AgreesWithAlone(p))
    /\ [][/\ lib' = lib
          /\ \A p \in Procs :
                ProcState(p)' # ProcState(p) =>
                    \A q \in Procs \ {p} : ProcState(q)' = ProcState(q)]_vars

\* Two instances interleaved on buffers the library treats differently: one
\* is inside the if-let, the other has aborted in an accessor.
C8_Witness ==
    /\ pc["h1"] \in Accessors /\ Len(calls["h1"]) >= 2
    /\ pc["h2"] = Aborted /\ Len(calls["h2"]) >= 2
    /\ buf["h1"] # buf["h2"]
    /\ calls["h2"] = AloneLog(buf["h2"])

\* C9: no step of a trial changes the trial's buffer, nothing is ever
\* stored, logged or printed, and when the callback returns the harness
\* state is the one it was dispatched with.
C9_TrialLeavesNoTrace ==
    [][\A p \in Procs :
          /\ pc[p] \in Probing => buf'[p] = buf[p]
          /\ sink'[p] = <<>>
          /\ (pc[p] \in Probing /\ pc'[p] = Idle) => HarnessState(p)' = entry[p]]_vars

\* A completed trial whose three results were dropped.
C9_Witness ==
    \E p \in Procs :
        /\ pc[p] = Idle /\ Len(calls[p]) = 4
        /\ Last(calls[p]).res = "ret"
        /\ HarnessState(p) = entry[p]
        /\ sink[p] = <<>>

\* C10: a trial makes at most four library calls, and if the library returns
\* from every call on the trial's buffer, a dispatched trial eventually
\* leaves Probing.
C10_TrialTerminates ==
    \A p \in Procs :
        /\ [](Len(calls[p]) <= 4)
        /\ (pc[p] \in Probing /\ Returns(buf[p])) ~> (pc[p] \notin Probing)

\* A second trial that is over after its four calls.
C10_Witness ==
    \E p \in Procs :
        /\ trials[p] = 2 /\ pc[p] = Idle
        /\ Len(calls[p]) = 4
        /\ Returns(buf[p])

=============================================================================
